---- MODULE Spec2Model ----
(***************************************************************************)
(* Model of pulumi-signal-waiter: WaitForSignalProvider.create, the loop   *)
(* that polls an SQS queue until requiredSignalCount signals have been     *)
(* received or the timeout has elapsed.                                    *)
(*                                                                         *)
(* Time is in milliseconds.  The wall clock (Date.now()) is the variable   *)
(* now; it advances in steps of TickMs while the run is between two        *)
(* statements or waits for the queue, and by BackoffMs in the backoff.     *)
(***************************************************************************)
EXTENDS Integers, Sequences, FiniteSets, TLC

(***************************************************************************)
(* Bounds of the model.                                                    *)
(***************************************************************************)
TickMs == 2500
MaxLateMs == 2500
MaxLatencyMs == 2500
MaxPolls == 3
MaxSwitches == 2

(***************************************************************************)
(* Program constants.                                                      *)
(***************************************************************************)
DefaultTimeout == 300000
DefaultPollInterval == 10
DefaultRequiredSignalCount == 1
MaxBatchSize == 10
MsPerSecond == 1000
\* BackoffMs of one second.
BackoffMs_Short == MsPerSecond
BackoffMs == 5000
DefaultBody == "ready"

(***************************************************************************)
(* Inputs the runs are checked on.  An absent input (undefined) and the    *)
(* number 0 are both falsy; Absent stands for them.                        *)
(***************************************************************************)
Absent == 0
StartTimes == {2500}
InputTimeouts == {10000, 11000}
InputPollIntervals == {1, 20}
InputRequiredSignalCounts == {1, 2, 11}
InputDeleteMessages == {TRUE, FALSE}

(***************************************************************************)
(* Limits of the constructor of SignalWaiter.                              *)
(***************************************************************************)
MinTimeoutMs == 10000
MaxTimeoutMs == 3600000
MinPollIntervalSeconds == 1
MaxPollIntervalSeconds == 20
MinRequiredSignalCount == 1
MaxRequiredSignalCount == 100

(***************************************************************************)
(* An argument of the constructor is omitted, a plain value, or a pulumi   *)
(* Output, an object that resolves to its value before create is called.   *)
(***************************************************************************)
Omitted == [kind |-> "absent"]
Plain(v) == [kind |-> "plain", value |-> v]
Output(v) == [kind |-> "output", value |-> v]

\* typeof a === "number"
IsNumber(a) == a.kind = "plain"

\* The truthiness of a numeric argument: an object is truthy, a number is
\* unless it is 0, undefined is not.
TruthyNumber(a) == a.kind = "output" \/ (a.kind = "plain" /\ a.value # 0)

\* TruthyString that takes the empty string for a value.
TruthyString_Given(a) == a.kind # "absent"

\* The truthiness of a string argument.
TruthyString(a) == a.kind = "output" \/ (a.kind = "plain" /\ a.value # "")

\* a || d in the constructor.
ArgOrDefault(a, d) == IF TruthyNumber(a) THEN a ELSE Plain(d)

\* Below that also refuses the limit itself.
Below_Inclusive(v, limit) == v <= limit

\* The range tests of the constructor.
Below(v, limit) == v < limit
Above(v, limit) == v > limit

\* ArgDeleteFlag that deletes only when told to.
ArgDeleteFlag_OnlyTrue(a) == a.kind = "plain" /\ a.value = TRUE

\* args.deleteMessages !== false
ArgDeleteFlag(a) == ~(a.kind = "plain" /\ a.value = FALSE)

NoError == "ok"

\* The validation of the constructor: the message of the error it throws,
\* or NoError.
ConstructorError(a) ==
  LET timeoutMs == ArgOrDefault(a.timeoutMs, DefaultTimeout)
      pollIntervalSeconds == ArgOrDefault(a.pollIntervalSeconds, DefaultPollInterval)
      required == ArgOrDefault(a.requiredSignalCount, DefaultRequiredSignalCount)
  IN IF ~TruthyString(a.queueUrl)
       THEN "SignalWaiter: queueUrl is required"
     ELSE IF IsNumber(timeoutMs) /\ Below(timeoutMs.value, MinTimeoutMs)
       THEN "SignalWaiter: timeoutMs must be at least 10000 (10 seconds)"
     ELSE IF IsNumber(timeoutMs) /\ Above(timeoutMs.value, MaxTimeoutMs)
       THEN "SignalWaiter: timeoutMs must not exceed 3600000 (1 hour)"
     ELSE IF IsNumber(pollIntervalSeconds)
             /\ Below(pollIntervalSeconds.value, MinPollIntervalSeconds)
       THEN "SignalWaiter: pollIntervalSeconds must be at least 1"
     ELSE IF IsNumber(pollIntervalSeconds)
             /\ Above(pollIntervalSeconds.value, MaxPollIntervalSeconds)
       THEN "SignalWaiter: pollIntervalSeconds must not exceed 20 (SQS long polling limit)"
     ELSE IF IsNumber(required) /\ Below(required.value, MinRequiredSignalCount)
       THEN "SignalWaiter: requiredSignalCount must be at least 1"
     ELSE IF IsNumber(required) /\ Above(required.value, MaxRequiredSignalCount)
       THEN "SignalWaiter: requiredSignalCount must not exceed 100 (practical limit)"
     ELSE NoError

DefaultRegion == "us-east-1"

\* EffectiveRegion that never reads the ambient configuration.
EffectiveRegion_NoAmbient(argRegion, ambient) ==
  IF TruthyString(argRegion) THEN argRegion ELSE Plain(DefaultRegion)

\* args.region || config.get("region") || "us-east-1"
EffectiveRegion(argRegion, ambient) ==
  IF TruthyString(argRegion) THEN argRegion
  ELSE IF TruthyString(ambient) THEN ambient
  ELSE Plain(DefaultRegion)

\* The properties the constructor hands to the provider; cfg is the "aws"
\* configuration of the program.
ProviderProps(a, cfg) ==
  [queueUrl |-> a.queueUrl,
   region |-> EffectiveRegion(a.region, cfg.region),
   timeout |-> ArgOrDefault(a.timeoutMs, DefaultTimeout),
   pollInterval |-> ArgOrDefault(a.pollIntervalSeconds, DefaultPollInterval),
   requiredSignalCount |->
     ArgOrDefault(a.requiredSignalCount, DefaultRequiredSignalCount),
   deleteMessages |-> ArgDeleteFlag(a.deleteMessages)]

\* The inputs of create: the properties with their Outputs resolved.
ResolveProps(p) ==
  [queueUrl |-> p.queueUrl.value,
   region |-> p.region.value,
   timeout |-> p.timeout.value,
   pollInterval |-> p.pollInterval.value,
   requiredSignalCount |-> p.requiredSignalCount.value,
   deleteMessages |-> p.deleteMessages]

\* The arguments the constructor is checked on.
QueueUrl == "https://sqs/q"
CtorQueueUrls == {Omitted, Plain(""), Plain(QueueUrl), Output(QueueUrl)}
CtorTimeouts ==
  {Omitted, Plain(0), Plain(5000), Plain(9999), Plain(10000), Plain(60000),
   Plain(3600000), Plain(3600001), Plain(4000000), Output(5000), Output(60000)}
CtorPollIntervals ==
  {Omitted, Plain(0), Plain(-1), Plain(1), Plain(10), Plain(20), Plain(21),
   Plain(25), Output(25)}
CtorRequiredSignalCounts ==
  {Omitted, Plain(0), Plain(-1), Plain(1), Plain(5), Plain(100), Plain(101),
   Plain(150), Output(0), Output(150)}
CtorDeleteMessages == {Omitted, Plain(TRUE), Plain(FALSE), Output(FALSE)}
CtorRegions ==
  {Omitted, Plain(""), Plain("eu-west-1"), Output("eu-central-1")}

\* What config.get("region") can give: nothing, or the string that was set.
AmbientRegions == {Omitted, Plain(""), Plain("ap-south-1")}
CtorConfigs == [region : AmbientRegions]

CtorArgs ==
  [queueUrl : CtorQueueUrls, region : CtorRegions, timeoutMs : CtorTimeouts,
   pollIntervalSeconds : CtorPollIntervals,
   requiredSignalCount : CtorRequiredSignalCounts,
   deleteMessages : CtorDeleteMessages]

Min(a, b) == IF a <= b THEN a ELSE b

\* Math.floor(x / 1000): \div rounds towards minus infinity, as Math.floor.
FloorSeconds(ms) == ms \div MsPerSecond

\* a || d on numbers: the default d replaces a falsy a.
OrDefault(a, d) == IF a = Absent THEN d ELSE a

(***************************************************************************)
(* Error texts, as sequences of characters, so that String.includes is a   *)
(* substring search.                                                       *)
(***************************************************************************)
PatDoesNotExist == <<"d","o","e","s"," ","n","o","t"," ","e","x","i","s","t">>
PatAccessDenied == <<"A","c","c","e","s","s","D","e","n","i","e","d">>
PatInvalidParameterValue ==
  <<"I","n","v","a","l","i","d","P","a","r","a","m","e","t","e","r","V","a","l","u","e">>

TxtQueueMissing ==
  <<"Q","u","e","u","e"," ">> \o PatDoesNotExist \o <<".">>
TxtAccessDenied == PatAccessDenied \o <<"E","x","c","e","p","t","i","o","n">>
TxtInvalidParam == <<"A","W","S",".">> \o PatInvalidParameterValue
TxtThrottled == <<"T","h","r","o","t","t","l","e","d">>
TxtLowerDenied == <<"a","c","c","e","s","s"," ","d","e","n","i","e","d">>
TxtNotExist == <<"d","o","e","s","n","o","t"," ","e","x","i","s","t">>
TxtEmpty == << >>

ErrorTexts ==
  {TxtQueueMissing, TxtAccessDenied, TxtInvalidParam, TxtThrottled,
   TxtLowerDenied, TxtNotExist, TxtEmpty}

\* A thrown value: an Error object with a message, or any other value,
\* whose String() form is text.
ThrownValues ==
  [isError : {TRUE}, text : ErrorTexts]
    \cup [isError : {FALSE}, text : {TxtAccessDenied, TxtThrottled}]

\* String.prototype.includes
Includes(s, pat) ==
  \E i \in 1..(Len(s) - Len(pat) + 1) : SubSeq(s, i, i + Len(pat) - 1) = pat

\* error instanceof Error ? error.message : String(error)
ErrorMessage(error) == error.text

\* IsFatal without the test for an invalid parameter value.
IsFatal_TwoPatterns(text) ==
  \/ Includes(text, PatDoesNotExist)
  \/ Includes(text, PatAccessDenied)

\* The fail-fast test of the catch block.
IsFatal(text) ==
  \/ Includes(text, PatDoesNotExist)
  \/ Includes(text, PatAccessDenied)
  \/ Includes(text, PatInvalidParameterValue)

\* CatchTarget without the throw: every error is retried.
CatchTarget_Retry(text) == "backoff"

\* Where the catch block leaves the run: it throws, or it waits and retries.
CatchTarget(text) == IF IsFatal(text) THEN "done" ELSE "backoff"

\* DeleteErrorTarget without the inner try: the outer catch block handles
\* the error of the delete call.
DeleteErrorTarget_Outer(text) == CatchTarget(text)

\* Where the catch block around the delete call leaves the run: it warns,
\* and the run goes on to the check of the count.
DeleteErrorTarget(text) == "check"

(***************************************************************************)
(* The queue.  Message i of the queue has an identifier, a body and a      *)
(* receipt handle; NoValue stands for a field the service left undefined.  *)
(* The stream kind fixes which messages lack a body or a handle.           *)
(***************************************************************************)
NoValue == "<undefined>"
StreamKinds == {"plain", "mixed"}

QueueMsg(kind, i) ==
  IF kind = "plain"
  THEN [MessageId |-> "id" \o ToString(i),
        Body |-> "m" \o ToString(i),
        ReceiptHandle |-> "rh" \o ToString(i)]
  ELSE [MessageId |-> IF i % 2 = 0 THEN NoValue ELSE "id" \o ToString(i),
        Body |-> IF i % 3 = 1 THEN "" ELSE
                 IF i % 3 = 2 THEN NoValue ELSE "m" \o ToString(i),
        ReceiptHandle |-> IF i % 4 = 2 THEN NoValue ELSE
                          IF i % 4 = 3 THEN "" ELSE "rh" \o ToString(i)]

\* A value is falsy when it is undefined or the empty string.
Falsy(v) == v = NoValue \/ v = ""

\* SignalOf that pushes the body as it is.
SignalOf_Raw(msg) == msg.Body

\* msg.Body || "ready"
SignalOf(msg) == IF Falsy(msg.Body) THEN DefaultBody ELSE msg.Body

\* PushAll that keeps only the bodies of the last response.
PushAll_Replace(signals, msgs) == [i \in 1..Len(msgs) |-> SignalOf(msgs[i])]

\* PushAll that puts the bodies of the response before the earlier ones.
PushAll_Prepend(signals, msgs) ==
  [i \in 1..Len(msgs) |-> SignalOf(msgs[i])] \o signals

\* The bodies pushed for one response, in the order of the response.
RECURSIVE PushAll(_, _)
PushAll(signals, msgs) ==
  IF msgs = << >> THEN signals
  ELSE PushAll(Append(signals, SignalOf(Head(msgs))), Tail(msgs))

\* msg.MessageId || `msg-${Date.now()}`
EntryId(msg, clock) ==
  IF Falsy(msg.MessageId) THEN "msg-" \o ToString(clock) ELSE msg.MessageId

\* StageDeletes that stages the first message of the response only.
StageDeletes_FirstOnly(doDelete, msgs, clock) ==
  IF doDelete /\ msgs # << >> /\ ~Falsy(Head(msgs).ReceiptHandle)
  THEN <<[Id |-> EntryId(Head(msgs), clock),
          ReceiptHandle |-> Head(msgs).ReceiptHandle]>>
  ELSE << >>

\* The entries staged for deletion while iterating over one response.
RECURSIVE StageDeletes(_, _, _)
StageDeletes(doDelete, msgs, clock) ==
  IF msgs = << >> THEN << >>
  ELSE LET msg == Head(msgs)
           rest == StageDeletes(doDelete, Tail(msgs), clock)
       IN IF doDelete /\ ~Falsy(msg.ReceiptHandle)
          THEN <<[Id |-> EntryId(msg, clock),
                  ReceiptHandle |-> msg.ReceiptHandle]>> \o rest
          ELSE rest

\* Math.round(ms / 1000)
RoundSeconds(ms) == (ms + 500) \div MsPerSecond

\* LoopCondition without the deadline.
LoopCondition_NoDeadline(elapsedMs, timeoutMs, received, required) ==
  received < required

\* LoopCondition with the deadline itself still inside the loop.
LoopCondition_Le(elapsedMs, timeoutMs, received, required) ==
  elapsedMs <= timeoutMs /\ received < required

\* LoopCondition that gives up at half the timeout.
LoopCondition_Early(elapsedMs, timeoutMs, received, required) ==
  elapsedMs * 2 < timeoutMs /\ received < required

\* The condition of the while loop.
LoopCondition(elapsedMs, timeoutMs, received, required) ==
  elapsedMs < timeoutMs /\ received < required

\* MaxNumberOfMessages that always asks for a full batch.
MaxNumberOfMessages_Full(required, received) == MaxBatchSize

\* MaxNumberOfMessages that forgets the signals already received.
MaxNumberOfMessages_NoSubtract(required, received) == Min(MaxBatchSize, required)

\* MaxNumberOfMessages of the receive command.
MaxNumberOfMessages(required, received) == Min(MaxBatchSize, required - received)

\* DeleteFlag that deletes whatever the input says.
DeleteFlag_Always(v) == TRUE

\* inputs.deleteMessages !== false
DeleteFlag(v) == v # FALSE

\* WaitTimeSeconds that rounds the remaining time up.
WaitTimeSeconds_Ceil(interval, remainingMs) ==
  Min(interval, FloorSeconds(remainingMs + MsPerSecond - 1))

\* WaitTimeSeconds of the receive command.
WaitTimeSeconds(interval, remainingMs) == Min(interval, FloorSeconds(remainingMs))

\* EnoughSignals satisfied by the first signal.
EnoughSignals_Any(received, required) == received >= 1

\* EnoughSignals that wants one signal more than required.
EnoughSignals_Strict(received, required) == received > required

\* The check made after the messages of a response were processed.
EnoughSignals(received, required) == received >= required

\* Sizes of the responses the queue gives to a request for max messages:
\* none, few, all that were asked for, and one more than was asked for.
ResponseSizes(max) == {k \in {0, 1, 2, max, max + 1} : k >= 0}

(***************************************************************************)
(* State of one run of WaitForSignalProvider.create.                       *)
(***************************************************************************)
VARIABLES
  now,                  \* the wall clock, Date.now()
  awsConfig,            \* new pulumi.Config("aws"), the same for every resource
  args,                 \* the SignalWaiterArgs given to the constructor
  props,                \* the properties the constructor gave the provider
  inputs,               \* the WaitForSignalInputs of the run
  start, timeout, pollInterval, requiredSignalCount, deleteMessages,
  pollCount, receivedSignals,
  elapsed, remaining,   \* the locals of the current iteration
  command,              \* the last ReceiveMessageCommand sent
  messagesToDelete,     \* the entries of the last DeleteMessageBatchCommand
  error, errorMessage,  \* the value caught by the catch block, its message
  pc,                   \* position of the run
  outcome, result, failure,
  \* the queue and what it has seen of the run
  kind,                 \* which messages the queue holds
  handedOut,            \* queue: the numbers of the messages handed out, in order
  undeleted,            \* queue: the messages handed out and not deleted
  qpos,                 \* number of messages the queue has handed out
  nReceive, nDelete,    \* requests the queue has received
  sentAt,               \* the clock when the request in flight was sent
  overDelivered,        \* a response held more messages than were asked for
  \* the history of the run
  checkAt,              \* the clock read by the last loop condition that held
  backoffMs,            \* time spent in the backoff since that condition
  nBackoff,             \* backoff waits taken
  lastRes, prevRes,     \* how the last poll and the one before it ended
  lastDelete,           \* how the delete request of this iteration ended
  expiredShort,         \* the deadline has passed with too few signals
  requested,            \* per message handed out: the delete entries sent for it
  nReports,             \* the progress reports emitted so far
  emitted,              \* the progress report the last step wrote, if any
  reportedAfter,        \* the receive calls that had ended when it was emitted
  \* a second call of create whose awaits interleave with those of the run
  other,                \* the state of the run that is not executing now
  switches              \* how often the event loop went from one run to the other

config == <<awsConfig, args, props, inputs, start, timeout, pollInterval, requiredSignalCount,
            deleteMessages, kind>>
locals == <<elapsed, remaining, command, messagesToDelete, error, errorMessage>>
ends == <<outcome, result, failure>>
queueSide == <<handedOut, undeleted, qpos, nReceive, nDelete, overDelivered, sentAt>>
history == <<checkAt, backoffMs, nBackoff, lastRes, prevRes, lastDelete>>
deleteLog == <<requested>>
reports == <<nReports, emitted, reportedAfter>>
peer == <<other, switches>>
vars == <<now, config, pollCount, receivedSignals, locals, pc, ends,
          queueSide, history, expiredShort, deleteLog, reports, peer>>

None == [none |-> TRUE]

\* A step of the run that writes no progress report.
NoReport ==
  /\ emitted' = None
  /\ UNCHANGED <<nReports, reportedAfter>>

\* ProgressReport that rounds the seconds down.
ProgressReport_Floor(poll, received, required, elapsedMs, remainingMs) ==
  [poll |-> poll, received |-> received, required |-> required,
   elapsedSeconds |-> FloorSeconds(elapsedMs),
   remainingSeconds |-> FloorSeconds(remainingMs)]

\* The values in the line "Poll #p, r/n signals received, e s elapsed,
\* m s remaining" that every iteration logs before its receive command.
ProgressReport(poll, received, required, elapsedMs, remainingMs) ==
  [poll |-> poll, received |-> received, required |-> required,
   elapsedSeconds |-> RoundSeconds(elapsedMs),
   remainingSeconds |-> RoundSeconds(remainingMs)]

\* The deadline has passed while the signals are still too few.
Short(clock, signals) ==
  clock - start >= timeout /\ Len(signals) < requiredSignalCount

\* The "aws" configuration of the programs whose run is followed.
RunConfig == [region |-> Plain("ap-south-1")]

\* The arguments of the resources whose runs are followed.
RunArgs ==
  {a \in [queueUrl : {Output(QueueUrl)},
          region : {Omitted},
          timeoutMs : {Plain(t) : t \in InputTimeouts},
          pollIntervalSeconds : {Plain(i) : i \in InputPollIntervals},
          requiredSignalCount : {Plain(c) : c \in InputRequiredSignalCounts},
          deleteMessages : {Plain(d) : d \in InputDeleteMessages}] :
     ConstructorError(a) = NoError}

\* The state when create is entered for a resource the constructor accepted.
Init ==
  /\ now \in StartTimes
  /\ args \in RunArgs
  /\ awsConfig = RunConfig
  /\ props = ProviderProps(args, awsConfig)
  /\ inputs = ResolveProps(props)
  /\ start = now
  /\ timeout = OrDefault(inputs.timeout, DefaultTimeout)
  /\ pollInterval = OrDefault(inputs.pollInterval, DefaultPollInterval)
  /\ requiredSignalCount =
       OrDefault(inputs.requiredSignalCount, DefaultRequiredSignalCount)
  /\ deleteMessages = DeleteFlag(inputs.deleteMessages)
  /\ pollCount = 0
  /\ receivedSignals = << >>
  /\ elapsed = 0 /\ remaining = 0
  /\ command = None /\ messagesToDelete = << >>
  /\ error = None /\ errorMessage = << >>
  /\ pc = "while"
  /\ outcome = "none" /\ result = None /\ failure = None
  /\ kind \in StreamKinds
  /\ handedOut = << >> /\ undeleted = {}
  /\ qpos = 0 /\ nReceive = 0 /\ nDelete = 0 /\ overDelivered = FALSE
  /\ sentAt = 0
  /\ checkAt = now /\ backoffMs = 0 /\ nBackoff = 0
  /\ lastRes = "none" /\ prevRes = "none" /\ lastDelete = "none"
  /\ expiredShort = FALSE
  /\ requested = << >>
  /\ nReports = 0 /\ emitted = None /\ reportedAfter = 0
  /\ other = None /\ switches = 0

\* expiredShort records whether the deadline ever passed with too few signals.
NoteExpiry == expiredShort' = (expiredShort \/ Short(now', receivedSignals'))

\* Succeed that records the result and goes on with the loop.
Succeed_NoReturn(signals) ==
  /\ outcome' = "success"
  /\ result' = [id |-> now, signals |-> signals, signalCount |-> Len(signals),
                pollCount |-> pollCount, elapsedMs |-> now - start]
  /\ failure' = None
  /\ pc' = "while"

\* return { id, signals, signalCount, receivedAt, pollCount, elapsedMs }
Succeed(signals) ==
  /\ outcome' = "success"
  /\ result' = [id |-> now, signals |-> signals, signalCount |-> Len(signals),
                pollCount |-> pollCount, elapsedMs |-> now - start]
  /\ failure' = None
  /\ pc' = "done"

\* The end of the loop body: its block-scoped constants go out of scope.
EndIteration ==
  /\ pc' = "while"
  /\ elapsed' = 0 /\ remaining' = 0 /\ command' = None

\* The check "if we have enough signals" that ends the handling of a response.
CheckEnough(signals) ==
  IF EnoughSignals(Len(signals), requiredSignalCount)
  THEN Succeed(signals) /\ UNCHANGED <<elapsed, remaining, command>>
  ELSE EndIteration /\ UNCHANGED ends

\* The loop condition holds: the run enters the body of the loop.
LoopEnter ==
  /\ pc = "while"
  /\ LoopCondition(now - start, timeout, Len(receivedSignals), requiredSignalCount)
  /\ pollCount < MaxPolls
  /\ pc' = "body"
  /\ checkAt' = now /\ backoffMs' = 0 /\ lastDelete' = "none"
  /\ UNCHANGED <<now, config, pollCount, receivedSignals, locals, ends, queueSide,
                 nBackoff, lastRes, prevRes>>
  /\ UNCHANGED peer
  /\ UNCHANGED deleteLog
  /\ NoReport
  /\ NoteExpiry

\* Poll with one poll counter for all calls of create.
Poll_SharedCounter ==
  /\ pc = "body"
  /\ pollCount' = pollCount + 1
  /\ elapsed' = now - start
  /\ remaining' = timeout - elapsed'
  /\ command' =
       [MaxNumberOfMessages |->
          MaxNumberOfMessages(requiredSignalCount, Len(receivedSignals)),
        WaitTimeSeconds |-> WaitTimeSeconds(pollInterval, remaining')]
  /\ nReceive' = nReceive + 1
  /\ sentAt' = now
  /\ pc' = "recv"
  /\ UNCHANGED <<now, config, receivedSignals, messagesToDelete, error,
                 errorMessage, ends, handedOut, undeleted, qpos, nDelete,
                 overDelivered, history>>
  /\ other' = IF other = None THEN other
              ELSE [other EXCEPT !.pollCount = @ + 1]
  /\ UNCHANGED switches
  /\ UNCHANGED deleteLog
  /\ nReports' = nReports + 1
  /\ emitted' = ProgressReport(pollCount', Len(receivedSignals),
                                  requiredSignalCount, elapsed', remaining')
  /\ reportedAfter' = nReceive
  /\ NoteExpiry

\* pollCount++, elapsed, remaining, and the receive command is sent.
Poll ==
  /\ pc = "body"
  /\ pollCount' = pollCount + 1
  /\ elapsed' = now - start
  /\ remaining' = timeout - elapsed'
  /\ command' =
       [MaxNumberOfMessages |->
          MaxNumberOfMessages(requiredSignalCount, Len(receivedSignals)),
        WaitTimeSeconds |-> WaitTimeSeconds(pollInterval, remaining')]
  /\ nReceive' = nReceive + 1
  /\ sentAt' = now
  /\ pc' = "recv"
  /\ UNCHANGED <<now, config, receivedSignals, messagesToDelete, error,
                 errorMessage, ends, handedOut, undeleted, qpos, nDelete, overDelivered, history>>
  /\ UNCHANGED peer
  /\ UNCHANGED deleteLog
  /\ nReports' = nReports + 1
  /\ emitted' = ProgressReport(pollCount', Len(receivedSignals),
                                  requiredSignalCount, elapsed', remaining')
  /\ reportedAfter' = nReceive
  /\ NoteExpiry

\* The number of distinct messages the queue handed out so far: the queue
\* hands out its messages in order, so it is the highest number handed out.
RECURSIVE FreshCount(_)
FreshCount(seq) ==
  IF seq = << >> THEN 0
  ELSE LET rest == FreshCount(Tail(seq))
       IN IF Head(seq) > rest THEN Head(seq) ELSE rest

\* For each message of a response, the number of entries of the delete
\* request that carry its receipt handle.
EntriesFor(msgs, entries) ==
  [i \in 1..Len(msgs) |->
     Cardinality({j \in 1..Len(entries) :
                    entries[j].ReceiptHandle = msgs[i].ReceiptHandle})]

\* HandleResponse that makes the check "enough signals" before the delete.
HandleResponse_CheckFirst(nums) ==
  /\ LET k == Len(nums)
         msgs == [i \in 1..k |-> QueueMsg(kind, nums[i])]
         signals == PushAll(receivedSignals, msgs)
         staged == StageDeletes(deleteMessages, msgs, now)
     IN /\ receivedSignals' = signals
        /\ qpos' = qpos + k
        /\ handedOut' = handedOut \o nums
        /\ undeleted' = undeleted \cup {nums[i] : i \in 1..k}
        /\ overDelivered' = (overDelivered \/ k > command.MaxNumberOfMessages)
        /\ IF k = 0
           THEN /\ EndIteration
                /\ sentAt' = 0
                /\ requested' = requested
                /\ UNCHANGED <<messagesToDelete, nDelete, ends>>
           ELSE IF EnoughSignals(Len(signals), requiredSignalCount)
           THEN /\ CheckEnough(signals)
                /\ sentAt' = 0
                /\ requested' = requested \o EntriesFor(msgs, << >>)
                /\ UNCHANGED <<messagesToDelete, nDelete>>
           ELSE IF deleteMessages /\ Len(staged) > 0
           THEN /\ messagesToDelete' = staged
                /\ nDelete' = nDelete + 1
                /\ sentAt' = now
                /\ requested' = requested \o EntriesFor(msgs, staged)
                /\ pc' = "delete"
                /\ UNCHANGED <<elapsed, remaining, command, ends>>
           ELSE /\ CheckEnough(signals)
                /\ sentAt' = 0
                /\ requested' = requested \o EntriesFor(msgs, << >>)
                /\ UNCHANGED <<messagesToDelete, nDelete>>
  /\ prevRes' = lastRes
  /\ lastRes' = IF nums = << >> THEN "empty" ELSE "ok"
  /\ UNCHANGED <<now, config, pollCount, error, errorMessage, nReceive,
                 checkAt, backoffMs, nBackoff, lastDelete>>
  /\ UNCHANGED peer
  /\ NoReport
  /\ NoteExpiry

\* The receive call returns the messages numbered nums; they are pushed and
\* staged, and either the delete command is sent or the count is checked.
HandleResponse(nums) ==
  /\ LET k == Len(nums)
         msgs == [i \in 1..k |-> QueueMsg(kind, nums[i])]
         signals == PushAll(receivedSignals, msgs)
         staged == StageDeletes(deleteMessages, msgs, now)
     IN /\ receivedSignals' = signals
        /\ qpos' = qpos + k
        /\ handedOut' = handedOut \o nums
        /\ undeleted' = undeleted \cup {nums[i] : i \in 1..k}
        /\ overDelivered' = (overDelivered \/ k > command.MaxNumberOfMessages)
        /\ IF k = 0
           THEN /\ EndIteration
                /\ sentAt' = 0
                /\ requested' = requested
                /\ UNCHANGED <<messagesToDelete, nDelete, ends>>
           ELSE IF deleteMessages /\ Len(staged) > 0
           THEN /\ messagesToDelete' = staged
                /\ nDelete' = nDelete + 1
                /\ sentAt' = now
                /\ requested' = requested \o EntriesFor(msgs, staged)
                /\ pc' = "delete"
                /\ UNCHANGED <<elapsed, remaining, command, ends>>
           ELSE /\ CheckEnough(signals)
                /\ sentAt' = 0
                /\ requested' = requested \o EntriesFor(msgs, << >>)
                /\ UNCHANGED <<messagesToDelete, nDelete>>
  /\ prevRes' = lastRes
  /\ lastRes' = IF nums = << >> THEN "empty" ELSE "ok"
  /\ UNCHANGED <<now, config, pollCount, error, errorMessage, nReceive,
                 checkAt, backoffMs, nBackoff, lastDelete>>
  /\ UNCHANGED peer
  /\ NoReport
  /\ NoteExpiry

\* The receive call returns the next k messages of the queue.
ReceiveOk(k) ==
  /\ pc = "recv"
  /\ k \in ResponseSizes(command.MaxNumberOfMessages)
  /\ HandleResponse([i \in 1..k |-> FreshCount(handedOut) + i])

\* The receive call returns again a message that was handed out before and
\* not deleted: its visibility timeout has passed.
ReceiveAgain ==
  /\ pc = "recv"
  /\ undeleted # {}
  /\ HandleResponse(<<CHOOSE m \in undeleted : \A n \in undeleted : m <= n>>)

\* The delete call returns.
DeleteDone ==
  /\ pc = "delete"
  /\ lastDelete' = "ok"
  /\ undeleted' =
       {m \in undeleted :
          \A j \in 1..Len(messagesToDelete) :
            messagesToDelete[j].ReceiptHandle # QueueMsg(kind, m).ReceiptHandle}
  /\ CheckEnough(receivedSignals)
  /\ messagesToDelete' = << >>
  /\ sentAt' = 0
  /\ UNCHANGED <<now, config, pollCount, receivedSignals, error, errorMessage,
                 handedOut, qpos, nReceive, nDelete, overDelivered, checkAt, backoffMs,
                 nBackoff, lastRes, prevRes>>
  /\ UNCHANGED peer
  /\ UNCHANGED deleteLog
  /\ NoReport
  /\ NoteExpiry

\* The delete call throws e.
DeleteError(e) ==
  /\ pc = "delete"
  /\ lastDelete' = IF IsFatal(ErrorMessage(e)) THEN "failedFatal" ELSE "failed"
  /\ messagesToDelete' = << >>
  /\ sentAt' = 0
  /\ LET target == DeleteErrorTarget(ErrorMessage(e))
     IN IF target = "check"
        THEN CheckEnough(receivedSignals) /\ UNCHANGED <<error, errorMessage>>
        ELSE /\ error' = e
             /\ errorMessage' = ErrorMessage(e)
             /\ pc' = target
             /\ UNCHANGED <<elapsed, remaining, command>>
             /\ IF target = "done"
                THEN /\ outcome' = "fatal"
                     /\ failure' = [type |-> "fatal", message |-> errorMessage',
                                    pollCount |-> pollCount]
                     /\ UNCHANGED result
                ELSE UNCHANGED ends
  /\ UNCHANGED <<now, config, pollCount, receivedSignals, handedOut, undeleted,
                 qpos, nReceive, nDelete,
                 overDelivered, checkAt, backoffMs, nBackoff, lastRes, prevRes>>
  /\ UNCHANGED peer
  /\ UNCHANGED deleteLog
  /\ NoReport
  /\ NoteExpiry

\* ReceiveError that drops the signals accumulated so far.
ReceiveError_Reset(e) ==
  /\ pc = "recv"
  /\ error' = e
  /\ errorMessage' = ErrorMessage(e)
  /\ pc' = CatchTarget(errorMessage')
  /\ IF pc' = "done"
     THEN /\ outcome' = "fatal"
          /\ failure' = [type |-> "fatal", message |-> errorMessage',
                         pollCount |-> pollCount]
          /\ UNCHANGED result
     ELSE UNCHANGED ends
  /\ receivedSignals' = << >>
  /\ prevRes' = lastRes
  /\ lastRes' = IF IsFatal(errorMessage') THEN "fatal" ELSE "transient"
  /\ sentAt' = 0
  /\ UNCHANGED <<now, config, pollCount, elapsed, remaining, command,
                 messagesToDelete, handedOut, undeleted, qpos, nReceive,
                 nDelete, overDelivered, checkAt, backoffMs, nBackoff,
                 lastDelete>>
  /\ UNCHANGED peer
  /\ UNCHANGED deleteLog
  /\ NoReport
  /\ NoteExpiry

\* The receive call throws e: the catch block throws the fatal error or
\* goes on to the backoff.
ReceiveError(e) ==
  /\ pc = "recv"
  /\ error' = e
  /\ errorMessage' = ErrorMessage(e)
  /\ pc' = CatchTarget(errorMessage')
  /\ IF pc' = "done"
     THEN /\ outcome' = "fatal"
          /\ failure' = [type |-> "fatal", message |-> errorMessage',
                         pollCount |-> pollCount]
          /\ UNCHANGED result
     ELSE UNCHANGED ends
  /\ prevRes' = lastRes
  /\ lastRes' = IF IsFatal(errorMessage') THEN "fatal" ELSE "transient"
  /\ sentAt' = 0
  /\ UNCHANGED <<now, config, pollCount, receivedSignals, elapsed, remaining,
                 command, messagesToDelete, handedOut, undeleted, qpos, nReceive, nDelete,
                 overDelivered, checkAt, backoffMs, nBackoff, lastDelete>>
  /\ UNCHANGED peer
  /\ UNCHANGED deleteLog
  /\ NoReport
  /\ NoteExpiry

\* Backoff that starts the deadline anew after the wait.
Backoff_Restart ==
  /\ pc = "backoff"
  /\ now' = now + BackoffMs
  /\ start' = now'
  /\ backoffMs' = backoffMs + BackoffMs
  /\ nBackoff' = nBackoff + 1
  /\ error' = None /\ errorMessage' = << >>
  /\ EndIteration
  /\ UNCHANGED <<awsConfig, args, props, inputs, timeout, pollInterval,
                 requiredSignalCount, deleteMessages, kind, pollCount,
                 receivedSignals, messagesToDelete, ends, queueSide, checkAt,
                 lastRes, prevRes, lastDelete>>
  /\ UNCHANGED peer
  /\ UNCHANGED deleteLog
  /\ NoReport
  /\ NoteExpiry

\* await new Promise(resolve => setTimeout(resolve, 5000)), the end of the
\* catch block.
Backoff ==
  /\ pc = "backoff"
  /\ now' = now + BackoffMs
  /\ backoffMs' = backoffMs + BackoffMs
  /\ nBackoff' = nBackoff + 1
  /\ error' = None /\ errorMessage' = << >>
  /\ EndIteration
  /\ UNCHANGED <<config, pollCount, receivedSignals, messagesToDelete, ends,
                 queueSide, checkAt, lastRes, prevRes, lastDelete>>
  /\ UNCHANGED peer
  /\ UNCHANGED deleteLog
  /\ NoReport
  /\ NoteExpiry

\* The loop condition fails: the timeout error is thrown, or the result
\* is returned after the loop.
\* TimeoutError that reports the signals still missing as received.
TimeoutError_Missing(elapsedMs, required, received, polls) ==
  [type |-> "timeout",
   elapsedSeconds |-> RoundSeconds(elapsedMs),
   required |-> required,
   received |-> required - received,
   pollCount |-> polls]

\* TimeoutError that counts the poll that was never made.
TimeoutError_NextPoll(elapsedMs, required, received, polls) ==
  [type |-> "timeout",
   elapsedSeconds |-> RoundSeconds(elapsedMs),
   required |-> required,
   received |-> received,
   pollCount |-> polls + 1]

\* The fields of the message of the timeout error.
TimeoutError(elapsedMs, required, received, polls) ==
  [type |-> "timeout",
   elapsedSeconds |-> RoundSeconds(elapsedMs),
   required |-> required,
   received |-> received,
   pollCount |-> polls]

LoopExit ==
  /\ pc = "while"
  /\ ~LoopCondition(now - start, timeout, Len(receivedSignals), requiredSignalCount)
  /\ IF Len(receivedSignals) < requiredSignalCount
     THEN /\ outcome' = "timeout"
          /\ failure' = TimeoutError(now - start, requiredSignalCount,
                                      Len(receivedSignals), pollCount)
          /\ pc' = "done"
          /\ UNCHANGED result
     ELSE Succeed(receivedSignals)
  /\ UNCHANGED <<now, config, pollCount, receivedSignals, locals, queueSide,
                 history>>
  /\ UNCHANGED peer
  /\ UNCHANGED deleteLog
  /\ NoReport
  /\ NoteExpiry

\* The longest a queue call stays in flight: the long-poll wait of a receive
\* call, and the latency of the network.
CallBudgetMs ==
  IF pc = "recv" /\ command.WaitTimeSeconds > 0
  THEN command.WaitTimeSeconds * MsPerSecond + MaxLatencyMs
  ELSE MaxLatencyMs

\* The clock advances while the run is between two statements or waits
\* for the queue.
Tick ==
  /\ pc \in {"while", "body", "recv", "delete"}
  /\ now - start < timeout + MaxLateMs
  /\ pc \in {"recv", "delete"} => now + TickMs - sentAt <= CallBudgetMs
  /\ now' = now + TickMs
  /\ UNCHANGED <<config, pollCount, receivedSignals, locals, pc, ends, queueSide,
                 history>>
  /\ UNCHANGED peer
  /\ UNCHANGED deleteLog
  /\ NoReport
  /\ NoteExpiry

Next ==
  \/ LoopEnter
  \/ Poll
  \/ \E k \in 0..(MaxBatchSize + 1) : ReceiveOk(k)
  \/ ReceiveAgain
  \/ DeleteDone
  \/ \E e \in ThrownValues : DeleteError(e)
  \/ \E e \in ThrownValues : ReceiveError(e)
  \/ Backoff
  \/ LoopExit
  \/ Tick

Spec == Init /\ [][Next]_vars

(***************************************************************************)
(* The constructor and the entry of create, on a wider set of arguments.   *)
(***************************************************************************)
CtorInit ==
  /\ now \in StartTimes
  /\ args \in CtorArgs
  /\ awsConfig \in CtorConfigs
  /\ props = None /\ inputs = None
  /\ start = 0 /\ timeout = 0 /\ pollInterval = 0 /\ requiredSignalCount = 0
  /\ deleteMessages = FALSE
  /\ pollCount = 0
  /\ receivedSignals = << >>
  /\ elapsed = 0 /\ remaining = 0
  /\ command = None /\ messagesToDelete = << >>
  /\ error = None /\ errorMessage = << >>
  /\ pc = "new"
  /\ outcome = "none" /\ result = None /\ failure = None
  /\ kind \in {"plain"}
  /\ handedOut = << >> /\ undeleted = {}
  /\ qpos = 0 /\ nReceive = 0 /\ nDelete = 0 /\ overDelivered = FALSE
  /\ sentAt = 0
  /\ checkAt = 0 /\ backoffMs = 0 /\ nBackoff = 0
  /\ lastRes = "none" /\ prevRes = "none" /\ lastDelete = "none"
  /\ expiredShort = FALSE
  /\ requested = << >>
  /\ nReports = 0 /\ emitted = None /\ reportedAfter = 0
  /\ other = None /\ switches = 0

\* new SignalWaiter(name, args): the validation, and the call of super.
Construct ==
  /\ pc = "new"
  /\ LET err == ConstructorError(args)
     IN IF err # NoError
        THEN /\ pc' = "rejected"
             /\ outcome' = "rejected"
             /\ failure' = [type |-> "config", message |-> err]
             /\ UNCHANGED props
        ELSE /\ pc' = "created"
             /\ props' = ProviderProps(args, awsConfig)
             /\ UNCHANGED <<outcome, failure>>
  /\ UNCHANGED <<now, awsConfig, args, inputs, start, timeout, pollInterval,
                 requiredSignalCount, deleteMessages, kind, pollCount,
                 receivedSignals, locals, result, queueSide, history,
                 expiredShort, peer,
                 deleteLog, reports>>

\* create(inputs) is entered: the constants read from the inputs.
CreateStart ==
  /\ pc = "created"
  /\ inputs' = ResolveProps(props)
  /\ start' = now
  /\ timeout' = OrDefault(inputs'.timeout, DefaultTimeout)
  /\ pollInterval' = OrDefault(inputs'.pollInterval, DefaultPollInterval)
  /\ requiredSignalCount' =
       OrDefault(inputs'.requiredSignalCount, DefaultRequiredSignalCount)
  /\ deleteMessages' = DeleteFlag(inputs'.deleteMessages)
  /\ checkAt' = now
  /\ pc' = "while"
  /\ UNCHANGED <<now, awsConfig, args, props, kind, pollCount, receivedSignals, locals, ends,
                 queueSide, backoffMs, nBackoff, lastRes, prevRes, lastDelete,
                 expiredShort, peer,
                 deleteLog, reports>>

CtorNext == Construct \/ CreateStart

CtorSpec == CtorInit /\ [][CtorNext]_vars

(***************************************************************************)
(* Two calls of create in one process.  Each call has its own locals; the  *)
(* event loop executes one call at a time and goes over to the other call  *)
(* while the first waits for the queue (the awaits of the receive and the  *)
(* delete call), before it has started, or after it has ended.  The state  *)
(* of the call that is not executing is kept in other; each call sees its  *)
(* own sequence of queue responses; the clock is the same for both.        *)
(***************************************************************************)
RunState ==
  [args |-> args,
   props |-> props,
   inputs |-> inputs,
   start |-> start,
   timeout |-> timeout,
   pollInterval |-> pollInterval,
   requiredSignalCount |-> requiredSignalCount,
   deleteMessages |-> deleteMessages,
   kind |-> kind,
   pollCount |-> pollCount,
   receivedSignals |-> receivedSignals,
   elapsed |-> elapsed,
   remaining |-> remaining,
   command |-> command,
   messagesToDelete |-> messagesToDelete,
   error |-> error,
   errorMessage |-> errorMessage,
   pc |-> pc,
   outcome |-> outcome,
   result |-> result,
   failure |-> failure,
   handedOut |-> handedOut,
   undeleted |-> undeleted,
   qpos |-> qpos,
   nReceive |-> nReceive,
   nDelete |-> nDelete,
   overDelivered |-> overDelivered,
   sentAt |-> sentAt,
   checkAt |-> checkAt,
   backoffMs |-> backoffMs,
   nBackoff |-> nBackoff,
   lastRes |-> lastRes,
   prevRes |-> prevRes,
   lastDelete |-> lastDelete,
   expiredShort |-> expiredShort,
   requested |-> requested,
   nReports |-> nReports, emitted |-> emitted, reportedAfter |-> reportedAfter]

\* The event loop goes over to the other call.
Switch ==
  /\ other # None
  /\ switches < MaxSwitches
  /\ pc \in {"created", "recv", "delete", "done"}
  /\ switches' = switches + 1
  /\ other' = RunState
  /\ args' = other.args
  /\ props' = other.props
  /\ inputs' = other.inputs
  /\ start' = other.start
  /\ timeout' = other.timeout
  /\ pollInterval' = other.pollInterval
  /\ requiredSignalCount' = other.requiredSignalCount
  /\ deleteMessages' = other.deleteMessages
  /\ kind' = other.kind
  /\ pollCount' = other.pollCount
  /\ receivedSignals' = other.receivedSignals
  /\ elapsed' = other.elapsed
  /\ remaining' = other.remaining
  /\ command' = other.command
  /\ messagesToDelete' = other.messagesToDelete
  /\ error' = other.error
  /\ errorMessage' = other.errorMessage
  /\ pc' = other.pc
  /\ outcome' = other.outcome
  /\ result' = other.result
  /\ failure' = other.failure
  /\ handedOut' = other.handedOut
  /\ undeleted' = other.undeleted
  /\ qpos' = other.qpos
  /\ nReceive' = other.nReceive
  /\ nDelete' = other.nDelete
  /\ overDelivered' = other.overDelivered
  /\ sentAt' = other.sentAt
  /\ checkAt' = other.checkAt
  /\ backoffMs' = other.backoffMs
  /\ nBackoff' = other.nBackoff
  /\ lastRes' = other.lastRes
  /\ prevRes' = other.prevRes
  /\ lastDelete' = other.lastDelete
  /\ expiredShort' = other.expiredShort
  /\ requested' = other.requested
  /\ nReports' = other.nReports
  /\ emitted' = other.emitted
  /\ reportedAfter' = other.reportedAfter
  /\ UNCHANGED <<now, awsConfig>>

\* The arguments of the two resources.
PairArgs ==
  [queueUrl |-> Output(QueueUrl), region |-> Plain("eu-west-1"),
   timeoutMs |-> Plain(10000),
   pollIntervalSeconds |-> Plain(1), requiredSignalCount |-> Plain(2),
   deleteMessages |-> Plain(TRUE)]
OtherArgs ==
  [queueUrl |-> Output(QueueUrl), region |-> Omitted,
   timeoutMs |-> Plain(11000),
   pollIntervalSeconds |-> Plain(20), requiredSignalCount |-> Plain(1),
   deleteMessages |-> Plain(FALSE)]

\* Both resources are constructed; neither call of create has started.
PairInit ==
  /\ now \in StartTimes
  /\ args = PairArgs
  /\ awsConfig = RunConfig
  /\ props = ProviderProps(args, awsConfig) /\ inputs = None
  /\ start = 0 /\ timeout = 0 /\ pollInterval = 0 /\ requiredSignalCount = 0
  /\ deleteMessages = FALSE
  /\ pollCount = 0
  /\ receivedSignals = << >>
  /\ elapsed = 0 /\ remaining = 0
  /\ command = None /\ messagesToDelete = << >>
  /\ error = None /\ errorMessage = << >>
  /\ pc = "created"
  /\ outcome = "none" /\ result = None /\ failure = None
  /\ kind = "plain"
  /\ handedOut = << >> /\ undeleted = {}
  /\ qpos = 0 /\ nReceive = 0 /\ nDelete = 0 /\ overDelivered = FALSE
  /\ sentAt = 0
  /\ checkAt = 0 /\ backoffMs = 0 /\ nBackoff = 0
  /\ lastRes = "none" /\ prevRes = "none" /\ lastDelete = "none"
  /\ expiredShort = FALSE
  /\ requested = << >>
  /\ nReports = 0 /\ emitted = None /\ reportedAfter = 0
  /\ other = [RunState EXCEPT !.args = OtherArgs,
                              !.props = ProviderProps(OtherArgs, awsConfig),
                              !.kind = "mixed"]
  /\ switches = 0

\* What the queue does to the two calls: a response of at most one message,
\* or a fatal error.
PairSizes == {0, 1}
PairThrown == {[isError |-> TRUE, text |-> TxtAccessDenied]}

PairNext ==
  \/ CreateStart
  \/ LoopEnter
  \/ Poll
  \/ \E k \in PairSizes : ReceiveOk(k)
  \/ DeleteDone
  \/ \E e \in PairThrown : ReceiveError(e)
  \/ LoopExit
  \/ Tick
  \/ Switch

PairSpec == PairInit /\ [][PairNext]_vars

(***************************************************************************)
(* The run keeps executing, every queue call returns and the clock keeps   *)
(* advancing.                                                              *)
(***************************************************************************)
RunStep == LoopEnter \/ Poll \/ Backoff \/ LoopExit

QueueReply ==
  \/ \E k \in 0..(MaxBatchSize + 1) : ReceiveOk(k)
  \/ ReceiveAgain
  \/ DeleteDone
  \/ \E e \in ThrownValues : DeleteError(e)
  \/ \E e \in ThrownValues : ReceiveError(e)

FairSpec ==
  Init /\ [][Next]_vars /\ WF_vars(RunStep) /\ WF_vars(QueueReply) /\ WF_vars(Tick)

\* The error texts that name a missing queue, a denied access or an
\* invalid parameter value.
FatalTexts == {TxtQueueMissing, TxtAccessDenied, TxtInvalidParam}

\* The signals of the first n messages handed out, in the order they were
\* handed out.
ExpectedSignals(n) ==
  [i \in 1..n |->
     LET body == QueueMsg(kind, handedOut[i]).Body
     IN IF body = "" \/ body = NoValue THEN "ready" ELSE body]

(***************************************************************************)
(* The time the clock advanced since the last loop condition that held,    *)
(* other than in the backoff: the queue calls in flight and the time       *)
(* between statements.                                                     *)
(***************************************************************************)
InFlightMs == now - checkAt - backoffMs

TypeOK ==
  /\ pc \in {"new", "rejected", "created",
            "while", "body", "recv", "delete", "backoff", "done"}
  /\ outcome \in {"none", "rejected", "success", "timeout", "fatal"}
  /\ pollCount \in 0..MaxPolls

(***************************************************************************)
(* C1: a successful result is returned only when the accumulated signals   *)
(* are at least requiredSignalCount, and its signalCount is the length of  *)
(* the returned signals.                                                   *)
(***************************************************************************)
C1_SuccessHasEnough ==
  outcome = "success" =>
    /\ Len(result.signals) >= requiredSignalCount
    /\ result.signalCount = Len(result.signals)
    /\ result.signals = receivedSignals
    /\ qpos >= requiredSignalCount

C1_Witness ==
  /\ outcome = "success"
  /\ requiredSignalCount = 2
  /\ pollCount >= 2
  /\ result.signalCount = 2

(***************************************************************************)
(* C2, as stated: a run in which the elapsed time reached the timeout      *)
(* while the signals were still too few never ends in success.             *)
(***************************************************************************)
C2_Original == outcome = "success" => ~expiredShort

(***************************************************************************)
(* C2, amended: when the loop condition is evaluated with the elapsed time *)
(* at or beyond the timeout and too few signals, the run ends there with   *)
(* the timeout error; the body of the loop is not entered again.           *)
(***************************************************************************)
C2_DeadlineAtLoopCheck ==
  [][(pc = "while" /\ Short(now, receivedSignals) /\ pc' # "while")
       => (pc' = "done" /\ outcome' = "timeout")]_vars

C2_Witness ==
  /\ outcome = "timeout"
  /\ pollCount >= 2
  /\ Len(receivedSignals) >= 1
  /\ Short(now, receivedSignals)

(***************************************************************************)
(* C3: the run reaches its terminal state no later than timeout + one      *)
(* poll interval + the time of the queue calls in flight after it started. *)
(***************************************************************************)
C3_TerminatesByDeadline ==
  pc = "done" =>
    now - start <= timeout + pollInterval * MsPerSecond + InFlightMs

(***************************************************************************)
(* C4: every run eventually ends, in success, in the timeout failure or in *)
(* the fatal failure, when every queue call returns and the clock keeps    *)
(* advancing.                                                              *)
(***************************************************************************)
C4_Terminates ==
  <>(pc = "done" /\ outcome \in {"success", "timeout", "fatal"})

C4_Witness ==
  /\ pc = "done"
  /\ outcome = "timeout"
  /\ lastRes = "empty"
  /\ pollCount >= 2

(***************************************************************************)
(* C5: while the queue never returns more messages than were asked for,    *)
(* the run never holds more than requiredSignalCount signals, and once the *)
(* queue has handed out requiredSignalCount messages the run succeeds with *)
(* signalCount = requiredSignalCount.                                      *)
(***************************************************************************)
C5_ExactCount ==
  ~overDelivered =>
    /\ Len(receivedSignals) <= requiredSignalCount
    /\ qpos >= requiredSignalCount => (pc = "delete" \/ outcome = "success")
    /\ outcome = "success" => result.signalCount = requiredSignalCount

C5_Witness ==
  /\ outcome = "success"
  /\ ~overDelivered
  /\ requiredSignalCount = 11
  /\ pollCount = 3
  /\ prevRes = "ok"

(***************************************************************************)
(* C6: every receive request asks for at least 1 message and for no more   *)
(* than 10 and no more than the number of signals still needed.            *)
(***************************************************************************)
C6_MaxMessages ==
  pc = "recv" =>
    /\ command.MaxNumberOfMessages >= 1
    /\ command.MaxNumberOfMessages <= 10
    /\ command.MaxNumberOfMessages <= requiredSignalCount - qpos

C6_Witness ==
  /\ pc = "recv"
  /\ requiredSignalCount = 11
  /\ qpos = 10
  /\ command.MaxNumberOfMessages = 1

(***************************************************************************)
(* C7: the long-poll wait of every receive request is at most the poll     *)
(* interval and at most the remaining time computed in that iteration,     *)
(* which is the timeout minus the elapsed time.                            *)
(***************************************************************************)
C7_WaitBounded ==
  pc = "recv" =>
    /\ command.WaitTimeSeconds <= pollInterval
    /\ command.WaitTimeSeconds * 1000 <= remaining
    /\ remaining = timeout - elapsed
    /\ elapsed = sentAt - start

C7_Witness ==
  /\ pc = "recv"
  /\ remaining = 2500
  /\ command.WaitTimeSeconds = 2
  /\ pollInterval = 20

(***************************************************************************)
(* C8: the step that catches a receive error classified fatal on poll k    *)
(* ends the run in the fatal failure with the poll counter at k, without   *)
(* the backoff wait and without a further receive or delete request, and   *)
(* nothing happens after the run has ended.                                *)
(***************************************************************************)
C8_FatalAborts ==
  [][/\ (pc = "recv" /\ lastRes' = "fatal")
        => /\ pc' = "done" /\ outcome' = "fatal"
           /\ pollCount' = nReceive /\ failure'.pollCount = nReceive
           /\ now' = now /\ nBackoff' = nBackoff
           /\ nReceive' = nReceive /\ nDelete' = nDelete
     /\ outcome = "fatal" => UNCHANGED vars]_vars

C8_Witness ==
  /\ outcome = "fatal"
  /\ pollCount = 2
  /\ nBackoff = 0
  /\ now - start < timeout

(***************************************************************************)
(* C9: the run ends in the fatal failure exactly on the receive errors     *)
(* whose message names a missing queue, a denied access or an invalid      *)
(* parameter value; after any other receive error, thrown as an Error or   *)
(* as another value, the run waits and goes back to the loop condition.    *)
(***************************************************************************)
C9_Classification ==
  /\ [](outcome = "fatal" => error.text \in FatalTexts)
  /\ [](pc = "backoff" => error.text \notin FatalTexts /\ outcome = "none")
  /\ [][pc = "recv" /\ error' # None
         => IF error'.text \in FatalTexts
            THEN outcome' = "fatal"
            ELSE pc' = "backoff" /\ lastRes' = "transient"]_vars
  /\ [][pc = "backoff" => pc' = "while" /\ outcome' = "none"]_vars

C9_Witness ==
  /\ pc = "backoff"
  /\ ~error.isError
  /\ lastRes = "transient"

(***************************************************************************)
(* C10: after a transient receive error on one poll and a receive that     *)
(* returned messages on the next, the accumulated signals are the signals  *)
(* of all the messages the queue has handed out, those from before the     *)
(* error included, and the poll counter counts every receive request, the  *)
(* failed one included.                                                    *)
(***************************************************************************)
C10_TransientThenOk ==
  (prevRes = "transient" /\ lastRes = "ok") =>
    /\ receivedSignals = ExpectedSignals(qpos)
    /\ pollCount = nReceive
    /\ nBackoff >= 1

C10_Witness ==
  /\ prevRes = "transient" /\ lastRes = "ok"
  /\ pollCount = 3
  /\ requiredSignalCount = 11
  /\ ~overDelivered
  /\ Len(receivedSignals) = 11

(***************************************************************************)
(* C11: whatever error the delete request fails with, also one whose text  *)
(* the receive path would classify fatal, the run does not end in the      *)
(* fatal failure and takes no backoff, and the signals of that poll stay   *)
(* accumulated and count towards requiredSignalCount.                      *)
(***************************************************************************)
C11_DeleteErrorNonFatal ==
  [][(pc = "delete" /\ lastDelete' \in {"failed", "failedFatal"})
       => /\ receivedSignals' = receivedSignals
          /\ now' = now /\ nBackoff' = nBackoff
          /\ IF Len(receivedSignals) >= requiredSignalCount
             THEN outcome' = "success" /\ result'.signals = receivedSignals
             ELSE pc' = "while" /\ outcome' = "none"]_vars

C11_Witness ==
  /\ outcome = "success"
  /\ lastDelete = "failedFatal"
  /\ requiredSignalCount = 2
  /\ result.signalCount = 2

(***************************************************************************)
(* C12: when deleteMessages is false no delete request is issued at any    *)
(* point of the run, nothing is staged for deletion, and the signals are   *)
(* counted and returned as with deleteMessages true: in either case the    *)
(* accumulated signals are the signals of the messages handed out so far,  *)
(* and a success returns them.                                             *)
(***************************************************************************)
C12_NoDeleteWhenDisabled ==
  /\ args.deleteMessages = Plain(FALSE)
       => nDelete = 0 /\ pc # "delete" /\ messagesToDelete = << >>
  /\ receivedSignals = ExpectedSignals(qpos)
  /\ outcome = "success"
       => /\ result.signals = ExpectedSignals(qpos)
          /\ result.signalCount = qpos

C12_Witness ==
  /\ outcome = "success"
  /\ args.deleteMessages = Plain(FALSE)
  /\ result.signalCount = 2
  /\ nReceive = 2 /\ nDelete = 0

(***************************************************************************)
(* C13: a run that ended with fewer signals than required and without a    *)
(* fatal error ended with the timeout error, and the timeout error reports *)
(* the number of signals received (the messages the queue handed out, 0    *)
(* when there were none), the required count of the arguments, and the     *)
(* number of polls attempted; it returns no result.                        *)
(***************************************************************************)
C13_TimeoutReport ==
  /\ (pc = "done" /\ outcome # "fatal"
        /\ Len(receivedSignals) < requiredSignalCount)
       => outcome = "timeout"
  /\ outcome = "timeout"
       => /\ failure.type = "timeout"
          /\ failure.received = Len(receivedSignals)
          /\ failure.received = qpos
          /\ failure.received < failure.required
          /\ failure.required = args.requiredSignalCount.value
          /\ failure.pollCount = pollCount
          /\ failure.pollCount = nReceive
          /\ result = None

C13_Witness ==
  /\ outcome = "timeout"
  /\ failure.received = 0
  /\ failure.required = 2
  /\ failure.pollCount = 2

(***************************************************************************)
(* C14: the outcomes are mutually exclusive and terminal.  A run has an    *)
(* outcome exactly when it has ended; a success has a result and no        *)
(* failure, a timeout or a fatal failure has the failure of its kind and   *)
(* no result; no request is in flight once there is an outcome; and once   *)
(* there is an outcome no step changes anything: no receive or delete      *)
(* request, no second outcome, no change of the result or the failure.     *)
(***************************************************************************)
C14_TerminalOutcome ==
  /\ [](/\ outcome \in {"none", "success", "timeout", "fatal"}
        /\ (outcome # "none") <=> (pc = "done")
        /\ (outcome = "none") => (result = None /\ failure = None)
        /\ (outcome = "success") => (result # None /\ failure = None)
        /\ (outcome \in {"timeout", "fatal"})
             => (result = None /\ failure # None /\ failure.type = outcome)
        /\ (outcome # "none") => (sentAt = 0 /\ messagesToDelete = << >>))
  /\ [][(outcome # "none") => UNCHANGED vars]_vars
  /\ [][(nReceive' # nReceive \/ nDelete' # nDelete
          \/ result' # result \/ failure' # failure)
         => outcome = "none"]_vars

C14_Witness ==
  /\ pc = "done" /\ outcome = "fatal"
  /\ result = None /\ failure.type = "fatal"
  /\ nReceive = 2 /\ nDelete = 1

(***************************************************************************)
(* C16: no queue message contributes more than one entry to the            *)
(* accumulated signals: entry i of receivedSignals comes from message      *)
(* handedOut[i], and no message number occurs twice among them, also when  *)
(* the queue hands out again a message that was not deleted.               *)
(***************************************************************************)
C16_CountedOnce ==
  /\ Len(receivedSignals) = Len(handedOut)
  /\ \A i, j \in 1..Len(receivedSignals) :
       handedOut[i] = handedOut[j] => i = j

(***************************************************************************)
(* C15: with deleteMessages true, the step that handles the response of a  *)
(* poll sends exactly one delete request if the response holds a message   *)
(* with a receipt handle; its entries carry exactly the receipt handles of *)
(* the messages of that response, in order; all bodies of the response are *)
(* appended by then and the required-count check has not been made (the    *)
(* run has no outcome while the delete is in flight).  A response without  *)
(* such a message, or deleteMessages false, sends none; and no other step  *)
(* sends a delete request.                                                 *)
(***************************************************************************)
C15_BatchedDelete ==
  [][LET polled == SubSeq(handedOut', Len(handedOut) + 1, Len(handedOut'))
         handles == [i \in 1..Len(polled) |->
                       QueueMsg(kind, polled[i]).ReceiptHandle]
         HasHandle(h) == h # NoValue /\ h # ""
         expected == SelectSeq(handles, HasHandle)
     IN /\ (pc = "recv" /\ pc' # "recv" /\ lastRes' \in {"ok", "empty"})
             => IF deleteMessages /\ expected # << >>
                THEN /\ nDelete' = nDelete + 1
                     /\ pc' = "delete"
                     /\ outcome' = "none"
                     /\ [i \in 1..Len(messagesToDelete') |->
                           messagesToDelete'[i].ReceiptHandle] = expected
                     /\ Len(receivedSignals')
                          = Len(receivedSignals) + Len(polled)
                ELSE /\ nDelete' = nDelete
                     /\ pc' # "delete"
                     /\ messagesToDelete' = << >>
        /\ (nDelete' # nDelete) => (pc = "recv" /\ pc' = "delete")
        /\ (pc = "delete" /\ pc' # "delete")
             => (nDelete' = nDelete /\ messagesToDelete' = << >>)]_vars

C15_Witness ==
  /\ pc = "delete" /\ outcome = "none"
  /\ kind = "mixed"
  /\ nReceive = 1 /\ nDelete = 1
  /\ Len(messagesToDelete) = 1
  /\ Len(receivedSignals) = 2
  /\ requiredSignalCount = 2

(***************************************************************************)
(* C17: once the constructor has run, a numeric timeoutMs below 10000 or   *)
(* above 3600000, a numeric pollIntervalSeconds below 1 or above 20, or a  *)
(* numeric requiredSignalCount below 1 or above 100 has been rejected with *)
(* an error: no provider properties were made and no polling starts.       *)
(***************************************************************************)
C17_RejectsOutOfRange ==
  LET Outside(a, lo, hi) == a.kind = "plain" /\ (a.value < lo \/ a.value > hi)
  IN (pc # "new"
      /\ \/ Outside(args.timeoutMs, MinTimeoutMs, MaxTimeoutMs)
         \/ Outside(args.pollIntervalSeconds, MinPollIntervalSeconds,
                    MaxPollIntervalSeconds)
         \/ Outside(args.requiredSignalCount, MinRequiredSignalCount,
                    MaxRequiredSignalCount))
     => (pc = "rejected" /\ failure.type = "config" /\ props = None
         /\ nReceive = 0)

(***************************************************************************)
(* C18: the constructor accepts every in-range number, the limits          *)
(* included: an in-range option is never the reason of a rejection, a      *)
(* resource with a queue URL whose numeric options are all in range is     *)
(* accepted, and the accepted value reaches the provider unchanged.        *)
(***************************************************************************)
C18_AcceptsInRange ==
  LET Inside(a, lo, hi) == a.kind = "plain" /\ lo <= a.value /\ a.value <= hi
      timeoutIn == Inside(args.timeoutMs, MinTimeoutMs, MaxTimeoutMs)
      intervalIn == Inside(args.pollIntervalSeconds, MinPollIntervalSeconds,
                           MaxPollIntervalSeconds)
      countIn == Inside(args.requiredSignalCount, MinRequiredSignalCount,
                        MaxRequiredSignalCount)
  IN /\ (pc # "new" /\ TruthyString(args.queueUrl)
         /\ timeoutIn /\ intervalIn /\ countIn)
          => pc # "rejected"
     /\ pc = "rejected"
          => /\ timeoutIn => failure.message \notin
                  {"SignalWaiter: timeoutMs must be at least 10000 (10 seconds)",
                   "SignalWaiter: timeoutMs must not exceed 3600000 (1 hour)"}
             /\ intervalIn => failure.message \notin
                  {"SignalWaiter: pollIntervalSeconds must be at least 1",
                   "SignalWaiter: pollIntervalSeconds must not exceed 20 (SQS long polling limit)"}
             /\ countIn => failure.message \notin
                  {"SignalWaiter: requiredSignalCount must be at least 1",
                   "SignalWaiter: requiredSignalCount must not exceed 100 (practical limit)"}
     /\ pc \in {"created", "while"}
          => /\ timeoutIn => props.timeout = args.timeoutMs
             /\ intervalIn => props.pollInterval = args.pollIntervalSeconds
             /\ countIn =>
                  props.requiredSignalCount = args.requiredSignalCount
     /\ pc = "while"
          => /\ timeoutIn => timeout = args.timeoutMs.value
             /\ intervalIn => pollInterval = args.pollIntervalSeconds.value
             /\ countIn =>
                  requiredSignalCount = args.requiredSignalCount.value

C18_Witness ==
  /\ pc = "created"
  /\ args.timeoutMs = Plain(MaxTimeoutMs)
  /\ args.pollIntervalSeconds = Plain(MinPollIntervalSeconds)
  /\ args.requiredSignalCount = Plain(MaxRequiredSignalCount)
  /\ props.timeout = Plain(3600000)
  /\ props.pollInterval = Plain(1)
  /\ props.requiredSignalCount = Plain(100)

(***************************************************************************)
(* C19: whenever the polling loop runs, its timeout is at least 10000 ms,  *)
(* its poll interval is between 1 and 20 s and its required signal count   *)
(* is between 1 and 100, for every argument the constructor accepts,       *)
(* Outputs included.                                                       *)
(***************************************************************************)
C19_LoopConfigInRange ==
  pc = "while"
    => /\ timeout >= MinTimeoutMs
       /\ pollInterval >= MinPollIntervalSeconds
       /\ pollInterval <= MaxPollIntervalSeconds
       /\ requiredSignalCount >= MinRequiredSignalCount
       /\ requiredSignalCount <= MaxRequiredSignalCount

(***************************************************************************)
(* C20: an omitted option takes its default, in the properties handed to   *)
(* the provider and in the loop: timeout 300000 ms, poll interval 10 s,    *)
(* required signal count 1, deleteMessages true; and deleteMessages is     *)
(* false only when the argument is the plain value false.                  *)
(***************************************************************************)
C20_Defaults ==
  /\ pc \in {"created", "while"}
       => /\ args.timeoutMs = Omitted => props.timeout = Plain(300000)
          /\ args.pollIntervalSeconds = Omitted => props.pollInterval = Plain(10)
          /\ args.requiredSignalCount = Omitted
               => props.requiredSignalCount = Plain(1)
          /\ args.deleteMessages = Omitted => props.deleteMessages = TRUE
          /\ props.deleteMessages = FALSE => args.deleteMessages = Plain(FALSE)
  /\ pc = "while"
       => /\ args.timeoutMs = Omitted => timeout = 300000
          /\ args.pollIntervalSeconds = Omitted => pollInterval = 10
          /\ args.requiredSignalCount = Omitted => requiredSignalCount = 1
          /\ args.deleteMessages = Omitted => deleteMessages = TRUE
          /\ deleteMessages = FALSE => args.deleteMessages = Plain(FALSE)

C20_Witness ==
  /\ pc = "while"
  /\ args.timeoutMs = Omitted /\ args.pollIntervalSeconds = Omitted
  /\ args.requiredSignalCount = Omitted /\ args.deleteMessages = Omitted
  /\ timeout = 300000 /\ pollInterval = 10 /\ requiredSignalCount = 1
  /\ deleteMessages = TRUE

(***************************************************************************)
(* C21: once the constructor has run on arguments whose queueUrl is        *)
(* missing or the empty string, it has thrown "queueUrl is required",      *)
(* whatever the other arguments are (out of range or not): no provider     *)
(* properties exist and no request was sent to the queue.                  *)
(***************************************************************************)
C21_QueueUrlRequired ==
  (pc # "new" /\ args.queueUrl \in {Omitted, Plain("")})
    => /\ pc = "rejected"
       /\ failure = [type |-> "config",
                     message |-> "SignalWaiter: queueUrl is required"]
       /\ props = None /\ inputs = None
       /\ nReceive = 0 /\ nDelete = 0

C21_Witness ==
  /\ pc = "rejected"
  /\ args.queueUrl = Plain("")
  /\ args.timeoutMs = Plain(5000)
  /\ args.pollIntervalSeconds = Plain(25)
  /\ failure.message = "SignalWaiter: queueUrl is required"

(***************************************************************************)
(* C22: the step that handles a receive response appends exactly one entry *)
(* per message of the response: the accumulated sequence grows by the      *)
(* number of messages, and the entry of a message is its body, or "ready"  *)
(* when the body is the empty string or undefined.                         *)
(***************************************************************************)
C22_OneEntryPerMessage ==
  [][LET polled == SubSeq(handedOut', Len(handedOut) + 1, Len(handedOut'))
         before == Len(receivedSignals)
         Entry(i) == LET body == QueueMsg(kind, polled[i]).Body
                     IN IF body = "" \/ body = NoValue THEN "ready" ELSE body
     IN (pc = "recv" /\ pc' # "recv" /\ lastRes' \in {"ok", "empty"})
          => /\ Len(receivedSignals') = before + Len(polled)
             /\ \A i \in 1..Len(polled) :
                  receivedSignals'[before + i] = Entry(i)]_vars

C22_Witness ==
  /\ kind = "mixed"
  /\ receivedSignals = <<"ready", "ready", "m3">>
  /\ handedOut = <<1, 2, 3>>

(***************************************************************************)
(* C29: the signals of a successful result are in the order of reception:  *)
(* entry i is the signal of the i-th message the queue handed out, the     *)
(* messages of earlier polls before those of later polls and those of one  *)
(* response in the order of the response.                                  *)
(***************************************************************************)
C29_ReceptionOrder ==
  outcome = "success"
    => /\ Len(result.signals) = Len(handedOut)
       /\ \A i \in 1..Len(handedOut) :
            LET body == QueueMsg(kind, handedOut[i]).Body
            IN result.signals[i] =
                 IF body \in {"", NoValue} THEN "ready" ELSE body

C29_Witness ==
  /\ outcome = "success"
  /\ kind = "plain"
  /\ nReceive = 2
  /\ result.signals = <<"m1", "m2", "m3">>

(***************************************************************************)
(* C24: a run gets its outcome for one of three reasons only.  Success:    *)
(* the accumulated count has reached requiredSignalCount.  Fatal failure:  *)
(* the receive call in flight threw an error whose text holds one of the   *)
(* three fatal patterns.  Timeout failure: the loop condition was          *)
(* evaluated with the elapsed time at or beyond the timeout and the count  *)
(* still short; no timeout is reported while time remains.                 *)
(***************************************************************************)
C24_ReasonsToEnd ==
  [][(outcome = "none" /\ outcome' # "none")
       => \/ /\ outcome' = "success"
             /\ Len(receivedSignals') >= requiredSignalCount
          \/ /\ outcome' = "fatal"
             /\ pc = "recv"
             /\ \/ Includes(failure'.message, PatDoesNotExist)
                \/ Includes(failure'.message, PatAccessDenied)
                \/ Includes(failure'.message, PatInvalidParameterValue)
          \/ /\ outcome' = "timeout"
             /\ pc = "while"
             /\ now' = now
             /\ now - start >= timeout
             /\ Len(receivedSignals) < requiredSignalCount]_vars

C24_Witness ==
  /\ outcome = "timeout"
  /\ now - start = timeout
  /\ Len(receivedSignals) = 1
  /\ requiredSignalCount = 2
  /\ nBackoff = 0

(***************************************************************************)
(* C25: with requiredSignalCount at least 1, whenever the loop condition   *)
(* is about to be evaluated the accumulated count is strictly below        *)
(* requiredSignalCount, so the loop never ends with enough signals: every  *)
(* success is returned from inside the loop body, by the step that handled *)
(* a response or the end of its delete call, never by the return that      *)
(* follows the loop.                                                       *)
(***************************************************************************)
C25_SuccessInsideLoop ==
  /\ [](pc = "while" => Len(receivedSignals) < requiredSignalCount)
  /\ [][(outcome' = "success" /\ outcome = "none")
         => pc \in {"recv", "delete"}]_vars

C25_Witness ==
  /\ pc = "while"
  /\ requiredSignalCount = 11
  /\ Len(receivedSignals) = 10
  /\ lastRes = "ok" /\ lastDelete = "ok"
  /\ pollCount = 1

(***************************************************************************)
(* C26: the long-poll wait of a receive request is never negative: it is   *)
(* a number of seconds from 0 to the poll interval, although the clock is  *)
(* read once for the loop condition and once more for the remaining time.  *)
(***************************************************************************)
C26_WaitNotNegative ==
  pc = "recv"
    => /\ command.WaitTimeSeconds >= 0
       /\ command.WaitTimeSeconds <= pollInterval

(***************************************************************************)
(* C27: the deadline is fixed when the run starts.  The start timestamp is *)
(* the clock at the entry of create and the timeout is the one of the      *)
(* arguments; no step changes either.  The backoff adds its 5000 ms to the *)
(* elapsed time measured from the same start, and the loop body is entered *)
(* only while that elapsed time is below the timeout, also after a         *)
(* transient error.                                                        *)
(***************************************************************************)
C27_DeadlineFixed ==
  /\ [](start \in StartTimes /\ timeout = args.timeoutMs.value)
  /\ [][start' = start /\ timeout' = timeout]_vars
  /\ [][pc = "backoff"
         => (now' - start' = (now - start) + BackoffMs /\ pc' = "while")]_vars
  /\ [][(pc = "while" /\ pc' = "body") => now - start < timeout]_vars
  /\ [][(pc = "while" /\ pc' = "done") => now - start >= timeout]_vars

C27_Witness ==
  /\ outcome = "timeout"
  /\ nBackoff = 1 /\ pollCount = 1
  /\ now - start = 12500
  /\ timeout = 10000

(***************************************************************************)
(* C28: the accumulated signals are append-only.  Every step keeps the     *)
(* entries it found, in place; a receive error (transient or fatal), a     *)
(* receive that returns no message and a failed delete leave the sequence  *)
(* as it is; and a receive that returns no message sends no delete         *)
(* request and takes no backoff: the loop condition comes next, at the     *)
(* same clock.                                                             *)
(***************************************************************************)
C28_AppendOnly ==
  /\ [][/\ Len(receivedSignals') >= Len(receivedSignals)
         /\ SubSeq(receivedSignals', 1, Len(receivedSignals))
              = receivedSignals]_vars
  /\ [][(pc = "recv" /\ (pc' = "backoff" \/ outcome' = "fatal"))
         => receivedSignals' = receivedSignals]_vars
  /\ [][(pc = "recv" /\ pc' # "recv" /\ lastRes' = "empty")
         => /\ receivedSignals' = receivedSignals
            /\ nDelete' = nDelete /\ messagesToDelete' = << >>
            /\ nBackoff' = nBackoff /\ now' = now
            /\ pc' = "while"]_vars
  /\ [][(pc = "delete" /\ lastDelete' \in {"failed", "failedFatal"})
         => receivedSignals' = receivedSignals]_vars

C28_Witness ==
  /\ pc = "while"
  /\ receivedSignals = <<"m1">>
  /\ prevRes = "transient" /\ lastRes = "empty"
  /\ pollCount = 3 /\ nBackoff = 1 /\ nDelete = 1

(***************************************************************************)
(* C30: the poll counter is the number of receive requests sent so far:    *)
(* both start at 0 and grow together, by one per iteration of the loop,    *)
(* and the pollCount of the success result and of the timeout error is     *)
(* the number of receive requests of the run.                              *)
(***************************************************************************)
C30_PollCounter ==
  /\ [](/\ pollCount = nReceive
        /\ outcome = "success" => result.pollCount = nReceive
        /\ outcome = "timeout" => failure.pollCount = nReceive)
  /\ [][(nReceive' # nReceive \/ pollCount' # pollCount)
         => /\ pc = "body" /\ pc' = "recv"
            /\ nReceive' = nReceive + 1
            /\ pollCount' = pollCount + 1]_vars

C30_Witness ==
  /\ outcome = "success"
  /\ result.pollCount = 3 /\ nReceive = 3
  /\ nBackoff = 1

(***************************************************************************)
(* C23: two calls of create whose steps interleave share no mutable state. *)
(* A step of the call that is executing leaves the state of the other call *)
(* as it is; going from one call to the other changes the state of         *)
(* neither; and each call, while it executes, is as it would be alone:     *)
(* its start and its constants are those of its own entry and arguments,   *)
(* its signals are the signals of the messages it was handed, its poll     *)
(* counter counts its own receive requests, and its outcome follows from   *)
(* its own count.                                                          *)
(***************************************************************************)
C23_RunsIsolated ==
  /\ [][switches' = switches => other' = other]_vars
  /\ [][switches' # switches
         => (other' = RunState /\ RunState' = other /\ now' = now)]_vars
  /\ [][(pc # "created" /\ switches' = switches)
         => (start' = start /\ timeout' = timeout)]_vars
  /\ [](pc # "created"
         => /\ timeout = args.timeoutMs.value
            /\ requiredSignalCount = args.requiredSignalCount.value
            /\ receivedSignals = ExpectedSignals(Len(handedOut))
            /\ pollCount = nReceive
            /\ outcome = "success"
                 => /\ result.signals = receivedSignals
                    /\ result.pollCount = nReceive
                    /\ Len(receivedSignals) >= requiredSignalCount
            /\ outcome = "timeout"
                 => /\ failure.received = Len(receivedSignals)
                    /\ failure.pollCount = nReceive)

C23_Witness ==
  /\ switches = 2
  /\ outcome = "success" /\ args = PairArgs
  /\ result.signals = <<"m1", "m2">> /\ result.pollCount = 3
  /\ other.args = OtherArgs
  /\ other.pc = "recv" /\ other.pollCount = 2
  /\ other.start > start

(***************************************************************************)
(* C32: as long as every receive of a run has failed with a transient      *)
(* error, the run has no signal and has not ended in success or in the     *)
(* fatal failure; if it has ended, it ended in the timeout failure with 0  *)
(* signals received; and since 5000 ms pass after each failed poll, the    *)
(* poll counter, also with the next receive in flight, is at most the      *)
(* timeout divided by 5000 ms, rounded up.                                 *)
(***************************************************************************)
C32_AllTransient ==
  LET maxPolls == (timeout + 4999) \div 5000
  IN /\ (nReceive >= 1 /\ nBackoff = nReceive)
          => /\ receivedSignals = << >>
             /\ outcome \in {"none", "timeout"}
             /\ pc = "done" => outcome = "timeout"
             /\ outcome = "timeout"
                  => (failure.received = 0 /\ failure.pollCount <= maxPolls)
             /\ pollCount <= maxPolls
     /\ (pc = "recv" /\ nBackoff = nReceive - 1) => pollCount <= maxPolls

C32_Witness ==
  /\ outcome = "timeout"
  /\ timeout = 10000
  /\ nReceive = 2 /\ nBackoff = 2
  /\ failure.received = 0 /\ failure.pollCount = 2
  /\ now - start = 10000

(***************************************************************************)
(* C31: when a run with deleteMessages true has returned success, a        *)
(* delete request was sent for every counted message that came with a      *)
(* receipt handle, the messages of the last poll included: one entry, in   *)
(* the one request sent while its response was handled, and no entry for   *)
(* a message without a handle.  The success that follows a response with   *)
(* such a message is returned only when its delete call has ended.         *)
(***************************************************************************)
C31_DeletedBeforeSuccess ==
  /\ []((outcome = "success" /\ deleteMessages)
         => /\ Len(requested) = Len(result.signals)
            /\ messagesToDelete = << >>
            /\ \A i \in 1..Len(requested) :
                 LET handle == QueueMsg(kind, handedOut[i]).ReceiptHandle
                 IN requested[i] = IF handle \in {"", NoValue} THEN 0 ELSE 1)
  /\ [][(outcome = "none" /\ outcome' = "success" /\ deleteMessages
          /\ pc = "recv")
         => (nDelete' = nDelete
             /\ \A i \in (Len(handedOut) + 1)..Len(handedOut') :
                  QueueMsg(kind, handedOut'[i]).ReceiptHandle
                    \in {"", NoValue})]_vars

C31_Witness ==
  /\ outcome = "success" /\ deleteMessages
  /\ kind = "plain"
  /\ requested = <<1, 1>>
  /\ nReceive = 2 /\ nDelete = 2
  /\ lastDelete = "ok"

(***************************************************************************)
(* C33: the region among the properties the constructor hands to the       *)
(* provider is the region argument when one is given (a string that is not *)
(* empty, or an Output); otherwise the region of the "aws" configuration    *)
(* when that is set to a string that is not empty; otherwise "us-east-1".  *)
(* The inputs of create carry the same region, resolved.                   *)
(***************************************************************************)
C33_EffectiveRegion ==
  LET given == args.region \notin {Omitted, Plain("")}
      ambientSet == awsConfig.region \notin {Omitted, Plain("")}
      expected == IF given THEN args.region
                  ELSE IF ambientSet THEN awsConfig.region
                  ELSE Plain("us-east-1")
  IN /\ props # None => props.region = expected
     /\ inputs # None => inputs.region = expected.value

C33_Witness ==
  /\ pc = "while"
  /\ args.region = Plain("")
  /\ awsConfig.region = Plain("ap-south-1")
  /\ props.region = Plain("ap-south-1")
  /\ inputs.region = "ap-south-1"

(***************************************************************************)
(* C34 as stated: a progress report is emitted after every poll.  Once a   *)
(* run is over, a report has been emitted after its last receive call      *)
(* ended.                                                                  *)
(***************************************************************************)
C34_Original ==
  (pc = "done" /\ nReceive >= 1) => (nReports >= 1 /\ reportedAfter = nReceive)

(***************************************************************************)
(* C34, amended: one progress report per poll, emitted in the step that    *)
(* starts the poll, before its receive command is sent.  It carries the    *)
(* number of the poll, the signals received before the poll and the        *)
(* required count, and the elapsed and the remaining time in seconds,      *)
(* rounded to the nearest.  No other step emits a report, so the outcome   *)
(* of the last poll is in no progress report.                              *)
(***************************************************************************)
C34_ReportPerPoll ==
  /\ [](/\ nReports = pollCount
        /\ nReports = nReceive
        /\ nReports >= 1 => reportedAfter = nReceive - 1
        /\ emitted # None => /\ pc = "recv"
                             /\ emitted.poll = pollCount
                             /\ emitted.received = Len(receivedSignals))
  /\ [][/\ nReceive' # nReceive => nReports' = nReports + 1
        /\ nReports' # nReports
             => /\ pc = "body" /\ pc' = "recv"
                /\ nReports' = nReports + 1
                /\ nReceive' = nReceive + 1
                /\ emitted' =
                     [poll |-> pollCount + 1,
                      received |-> Len(receivedSignals),
                      required |-> requiredSignalCount,
                      elapsedSeconds |-> (now - start + 500) \div 1000,
                      remainingSeconds |->
                        (timeout - (now - start) + 500) \div 1000]
        /\ nReports' = nReports => emitted' = None]_vars

C34_Witness ==
  /\ pc = "recv"
  /\ nReports = 2 /\ pollCount = 2 /\ reportedAfter = 1
  /\ handedOut = <<1>>
  /\ emitted = [poll |-> 2, received |-> 1, required |-> 2,
                elapsedSeconds |-> 3, remainingSeconds |-> 8]

====
